---------------------------- MODULE Spec2Model ----------------------------
(***************************************************************************)
(* A model of src/app.py: the users and logs tables, the Flask session,    *)
(* the payout gateway, and the request handlers index, login, register,    *)
(* save_payment_method and start_production.                               *)
(*                                                                         *)
(* Every get_db() block of the source is one committed transaction, so     *)
(* every such block is one atomic step of the model; start_production is   *)
(* a sequence of such steps and may interleave with other requests.        *)
(*                                                                         *)
(* Money is a Python float in the source.  The model keeps it in fixed     *)
(* point: an amount is an integer number of units, UnitsPerCent units to   *)
(* the cent, so that a balance can hold a fraction of a cent; the rounding *)
(* of float addition is not modelled.  Names are sequences of characters,  *)
(* so that str.strip() does what it does.                                  *)
(*                                                                         *)
(* Left out: the timestamp of a log row, the rendering of pages, a form    *)
(* or body that lacks name, password, amount_per_cycle or cycles (the      *)
(* handlers are given these fields), and the message "Utente gia           *)
(* esistente" is written without its accent.                               *)
(***************************************************************************)
EXTENDS Integers, Sequences, FiniteSets, TLC

\* ------------------------------------------------------------------ bounds
\* Fixed-point resolution: units of balance per minor currency unit (cent).
UnitsPerCent == 4
\* How many rows the logs table holds at most, a crash counting as one row:
\* an invocation of start_production is admitted only while its rows still
\* fit, and a crash takes the place of the rows the requests it ends had left.
\* One bound for the requests that arrive one at a time, one for the
\* requests that concurrent threads serve.
MaxRows == 3
MaxConcurrentRows == 4

\* ------------------------------------------------------------------ inputs
Threads == {"t1", "t2"}

\* request.form["name"]: the empty name, a blank, a name, and the same name
\* with a leading blank.
NameInputs == {<<>>, <<" ">>, <<"a">>, <<" ", "a">>}
\* request.form["password"]
PasswordInputs == {"", "p", "q"}
\* request.json.get("payment_method_id"): absent (None), empty, two ids.
None == "<None>"
PmInputs == {None, "", "pm_1", "pm_2"}
\* request.json["amount_per_cycle"], in units: a negative amount and a
\* positive one, neither a whole number of cents.
AmountInputs == {-3, 3}
\* request.json["cycles"]
CycleInputs == {-1, 0, 1, 2}
\* payout.status as the gateway reports it
GatewayStatuses == {"pending"}

\* The inputs of the requests that arrive one at a time, and the narrower
\* ones of the requests that concurrent threads serve.
Inputs ==
    [names |-> NameInputs, passwords |-> PasswordInputs, pms |-> PmInputs,
     amounts |-> AmountInputs, cycles |-> CycleInputs, rows |-> MaxRows]

ConcurrentInputs ==
    [names |-> {<<"a">>}, passwords |-> {"p"}, pms |-> {"pm_1"},
     amounts |-> {3}, cycles |-> {0, 1}, rows |-> MaxConcurrentRows]

\* ------------------------------------------------------------------ state
VARIABLES
    users,      \* table users: stored name -> row
    logs,       \* table logs: the rows in insertion (id) order
    session,    \* the Flask session of the browser: empty or [user |-> name]
    req,        \* the request threads: locals and position in start_production
    payouts,    \* the payouts the gateway accepted, in order
    last,       \* the last response sent (or the crash that ended requests)
    crashes     \* how many times the process crashed

vars == <<users, logs, session, req, payouts, last, crashes>>

\* ---------------------------------------------------------------- helpers
\* hashlib.sha256(password.encode()).hexdigest(): modelled as a tagged,
\* collision-free digest of the password.
hash_password(password) == <<"sha256", password>>

\* str.strip(): drop the leading and the trailing blanks.
RECURSIVE LStrip(_)
LStrip(s) == IF s # <<>> /\ Head(s) = " " THEN LStrip(Tail(s)) ELSE s

RECURSIVE RStrip(_)
RStrip(s) ==
    IF s # <<>> /\ s[Len(s)] = " " THEN RStrip(SubSeq(s, 1, Len(s) - 1)) ELSE s

Strip(s) == RStrip(LStrip(s))

\* "user" in session, for the session s a request comes with
LoggedIn(s) == "user" \in DOMAIN s

\* A variant of Falsy that takes only the empty string for falsy.
Falsy_OnlyEmpty(s) == s = ""

\* Python truthiness of an optional string: None and "" are falsy.
Falsy(s) == s = None \/ s = ""

\* The id of the n-th payout the gateway creates; no payout: <<>>.
NoPayout == <<>>
PayoutId(n) == <<"po", n>>

\* A row of users as INSERT creates it (balance default, stripe_pm_id NULL).
NewUserRow(pw_hash, initial_balance) ==
    [password_hash |-> pw_hash, balance |-> initial_balance, stripe_pm_id |-> None]

\* UPDATE users SET balance = ? WHERE name = ?  (no row: nothing changes)
SetBalance(u, name, b) ==
    IF name \in DOMAIN u THEN [u EXCEPT ![name].balance = b] ELSE u

\* A variant of SetPm that keeps a destination already stored.
SetPm_OnlyIfUnset(u, name, pm) ==
    IF name \in DOMAIN u /\ u[name].stripe_pm_id = None
    THEN [u EXCEPT ![name].stripe_pm_id = pm]
    ELSE u

\* UPDATE users SET stripe_pm_id = ? WHERE name = ?
SetPm(u, name, pm) ==
    IF name \in DOMAIN u THEN [u EXCEPT ![name].stripe_pm_id = pm] ELSE u

\* The row log_transaction inserts (the timestamp is left out).
LogRow(name, description, amount, before, after, payout_id) ==
    [user_name |-> name, description |-> description, amount |-> amount,
     balance_before |-> before, balance_after |-> after, payout_id |-> payout_id]

CycleDescription(cycle, cycles) == <<"Ciclo", cycle, cycles>>
WithdrawalDescription == <<"PRELIEVO FINALE">>

\* int(x) of x = n / d for d > 0: truncation toward zero.
IntTrunc(n, d) == IF n >= 0 THEN n \div d ELSE -((-n) \div d)

\* int(final_balance * 100): the balance in minor units, as the code sends it.
PayoutAmount(final_balance) == IntTrunc(final_balance, UnitsPerCent)

\* A variant of Insufficient that lets a balance of 0 through.
Insufficient_Strict(final_balance) == final_balance < 0

\* final_balance <= 0
Insufficient(final_balance) == final_balance <= 0

\* A variant of Accrue that forgets the balance it read.
Accrue_Overwrites(balance_before, amount_per_cycle) == amount_per_cycle

\* balance_before + amount_per_cycle
Accrue(balance_before, amount_per_cycle) == balance_before + amount_per_cycle

\* A thread that serves no request.  Besides the locals of start_production
\* a request keeps what it found on entry (the stored balance, the number of
\* log rows and of payouts): the code has no such locals, they are kept for
\* the properties to speak about.
IdleReq ==
    [pc |-> "idle", user |-> <<>>, amount_per_cycle |-> 0, cycles |-> 0,
     cycle |-> 0, balance_before |-> 0, balance_after |-> 0,
     final_balance |-> 0, pm_id |-> None, payout_id |-> NoPayout,
     payout_status |-> "", entry_balance |-> 0, entry_rows |-> 0,
     entry_payouts |-> 0]

\* A response: the handler, the HTTP status, the message, error or redirect
\* it carries, the form or body a successful register or save_payment_method
\* was made with, and for start_production the locals it ended with.
Response(op, status, info, form, r) ==
    [op |-> op, status |-> status, info |-> info, form |-> form, inv |-> r]

\* An empty table, and the session of a browser that never logged in.
EmptyTable == [n \in {} |-> None]
NoSession == [k \in {} |-> None]

\* The session a request comes with: that of the browser the model follows,
\* or the empty one of a client that holds no session cookie.
Sessions == {session, NoSession}

Init ==
    /\ users = EmptyTable
    /\ logs = <<>>
    /\ session = NoSession
    /\ req = [t \in Threads |-> IdleReq]
    /\ payouts = <<>>
    /\ last = Response("none", 0, "", <<>>, IdleReq)
    /\ crashes = 0

\* ------------------------------------------------- the atomic handlers
\* A variant of add_user whose INSERT replaces the row of a name already there.
add_user_Replaces(name, password) ==
    LET stripped == Strip(name) IN
    IF stripped = <<>> \/ password = ""
    THEN [success |-> FALSE, msg |-> "Nome e password obbligatori", table |-> users]
    ELSE [success |-> TRUE, msg |-> "creato",
          table |-> [n \in DOMAIN users \cup {stripped} |->
                        IF n = stripped
                        THEN NewUserRow(hash_password(password), 0)
                        ELSE users[n]]]

\* add_user(name, password): whether it succeeded, its message, and the users
\* table it leaves.
add_user(name, password) ==
    LET stripped == Strip(name) IN
    IF stripped = <<>> \/ password = ""
    THEN [success |-> FALSE, msg |-> "Nome e password obbligatori", table |-> users]
    ELSE IF stripped \in DOMAIN users
    THEN [success |-> FALSE, msg |-> "Utente gia esistente", table |-> users]
    ELSE [success |-> TRUE, msg |-> "creato",
          table |-> [n \in DOMAIN users \cup {stripped} |->
                        IF n = stripped
                        THEN NewUserRow(hash_password(password), 0)
                        ELSE users[n]]]

\* verify_user(name, password)
verify_user(name, password) ==
    IF name \in DOMAIN users
    THEN hash_password(password) = users[name].password_hash
    ELSE FALSE

\* get_balance(name) is users[name].balance when the row exists, else None;
\* get_payment_method(name) likewise.
HasRow(name) == name \in DOMAIN users

\* POST /register
Register(name, password) ==
    LET r == add_user(name, password) IN
    /\ users' = r.table
    /\ IF r.success
       THEN /\ session' = [user |-> name]
            /\ last' = Response("register", 302, "index", <<name, password>>, IdleReq)
       ELSE /\ session' = session
            /\ last' = Response("register", 200, r.msg, <<>>, IdleReq)
    /\ UNCHANGED <<logs, req, payouts, crashes>>

\* POST /login
Login(name, password) ==
    /\ IF verify_user(name, password)
       THEN /\ session' = [user |-> name]
            /\ last' = Response("login", 302, "index", <<>>, IdleReq)
       ELSE /\ session' = session
            /\ last' = Response("login", 200, "Credenziali errate", <<>>, IdleReq)
    /\ UNCHANGED <<users, logs, req, payouts, crashes>>

\* GET /
Index(s) ==
    /\ IF ~LoggedIn(s)
       THEN last' = Response("index", 302, "login", <<>>, IdleReq)
       ELSE last' = Response("index", 200, "index.html", <<>>, IdleReq)
    /\ UNCHANGED <<users, logs, session, req, payouts, crashes>>

\* A variant of save_payment_method that looks at the body before the session.
SavePaymentMethod_BodyFirst(s, pm_id) ==
    /\ IF Falsy(pm_id)
       THEN /\ users' = users
            /\ last' = Response("save_payment_method", 400, "payment_method_id mancante", <<>>, IdleReq)
       ELSE IF ~LoggedIn(s)
       THEN /\ users' = users
            /\ last' = Response("save_payment_method", 401, "Non autenticato", <<>>, IdleReq)
       ELSE /\ users' = SetPm(users, s.user, pm_id)
            /\ last' = Response("save_payment_method", 200, "Metodo salvato", <<pm_id>>, IdleReq)
    /\ UNCHANGED <<logs, session, req, payouts, crashes>>

\* POST /api/save-payment-method
SavePaymentMethod(s, pm_id) ==
    /\ IF ~LoggedIn(s)
       THEN /\ users' = users
            /\ last' = Response("save_payment_method", 401, "Non autenticato", <<>>, IdleReq)
       ELSE IF Falsy(pm_id)
       THEN /\ users' = users
            /\ last' = Response("save_payment_method", 400, "payment_method_id mancante", <<>>, IdleReq)
       ELSE /\ users' = SetPm(users, s.user, pm_id)
            /\ last' = Response("save_payment_method", 200, "Metodo salvato", <<pm_id>>, IdleReq)
    /\ UNCHANGED <<logs, session, req, payouts, crashes>>

\* ------------------------------------------------------ start_production
\* A thread ends its request: the response is sent and the locals are gone.
Finish(t, status, info) ==
    /\ last' = Response("start_production", status, info, <<>>, req[t])
    /\ req' = [req EXCEPT ![t] = IdleReq]

\* The rows an invocation with this many cycles appends at most, the rows a
\* request in flight may still append, and the sum over the requests in flight.
RowsOf(cycles) == (IF cycles > 0 THEN cycles ELSE 0) + 1

RowsPending(r) ==
    IF r.pc = "idle" THEN 0
    ELSE IF r.pc \in {"loop", "write", "log"}
    THEN RowsOf(r.cycles - r.cycle + 1)
    ELSE 1

RECURSIVE SumPending(_)
SumPending(T) ==
    IF T = {} THEN 0
    ELSE LET t == CHOOSE x \in T : TRUE IN RowsPending(req[t]) + SumPending(T \ {t})

RowsReserved == SumPending(Threads)

\* The rows of one more invocation with this many cycles fit under the bound.
Fits(cycles, max_rows) == Len(logs) + crashes + RowsReserved + RowsOf(cycles) <= max_rows

\* The session check and the reading of the request body.
StartProduction(t, s, amount_per_cycle, cycles) ==
    /\ req[t].pc = "idle"
    /\ IF ~LoggedIn(s)
       THEN /\ last' = Response("start_production", 401, "Non autenticato", <<>>, IdleReq)
            /\ req' = req
       ELSE /\ req' = [req EXCEPT ![t] =
                   [IdleReq EXCEPT !.pc = "loop",
                                   !.user = s.user,
                                   !.amount_per_cycle = amount_per_cycle,
                                   !.cycles = cycles,
                                   !.cycle = 1,
                                   !.entry_balance =
                                       IF HasRow(s.user)
                                       THEN users[s.user].balance ELSE 0,
                                   !.entry_rows = Len(logs),
                                   !.entry_payouts = Len(payouts)]]
            /\ last' = last
    /\ UNCHANGED <<users, logs, session, payouts, crashes>>

\* A variant of CycleRead whose loop runs its first cycle whatever cycles is.
CycleRead_AtLeastOnce(t) ==
    /\ req[t].pc = "loop"
    /\ req[t].cycle <= req[t].cycles \/ req[t].cycle = 1
    /\ IF HasRow(req[t].user)
       THEN LET before == users[req[t].user].balance IN
            /\ req' = [req EXCEPT ![t].balance_before = before,
                                  ![t].balance_after = Accrue(before, req[t].amount_per_cycle),
                                  ![t].pc = "write"]
            /\ last' = last
       ELSE Finish(t, 500, "TypeError")
    /\ UNCHANGED <<users, logs, session, payouts, crashes>>

\* for cycle in range(1, cycles + 1): balance_before = get_balance(user);
\* balance_after = balance_before + amount_per_cycle.  No row: None + float
\* raises TypeError, which the handler answers with 500.
CycleRead(t) ==
    /\ req[t].pc = "loop"
    /\ req[t].cycle <= req[t].cycles
    /\ IF HasRow(req[t].user)
       THEN LET before == users[req[t].user].balance IN
            /\ req' = [req EXCEPT ![t].balance_before = before,
                                  ![t].balance_after = Accrue(before, req[t].amount_per_cycle),
                                  ![t].pc = "write"]
            /\ last' = last
       ELSE Finish(t, 500, "TypeError")
    /\ UNCHANGED <<users, logs, session, payouts, crashes>>

\* UPDATE users SET balance = balance_after
CycleWrite(t) ==
    /\ req[t].pc = "write"
    /\ users' = SetBalance(users, req[t].user, req[t].balance_after)
    /\ req' = [req EXCEPT ![t].pc = "log"]
    /\ UNCHANGED <<logs, session, payouts, last, crashes>>

\* A variant of CycleLog that logs the balance it finds stored, not the one
\* the cycle computed.
CycleLog_StoredBalance(t) ==
    /\ req[t].pc = "log"
    /\ logs' = Append(logs, LogRow(req[t].user,
                                   CycleDescription(req[t].cycle, req[t].cycles),
                                   req[t].amount_per_cycle,
                                   req[t].balance_before,
                                   IF HasRow(req[t].user)
                                   THEN users[req[t].user].balance
                                   ELSE req[t].balance_after, NoPayout))
    /\ req' = [req EXCEPT ![t].cycle = @ + 1, ![t].pc = "loop"]
    /\ UNCHANGED <<users, session, payouts, last, crashes>>

\* log_transaction(user, "Ciclo i/n", amount_per_cycle, before, after)
CycleLog(t) ==
    /\ req[t].pc = "log"
    /\ logs' = Append(logs, LogRow(req[t].user,
                                   CycleDescription(req[t].cycle, req[t].cycles),
                                   req[t].amount_per_cycle,
                                   req[t].balance_before, req[t].balance_after, NoPayout))
    /\ req' = [req EXCEPT ![t].cycle = @ + 1, ![t].pc = "loop"]
    /\ UNCHANGED <<users, session, payouts, last, crashes>>

\* final_balance = get_balance(user); if final_balance <= 0: 400.
FinalBalance(t) ==
    /\ req[t].pc = "loop"
    /\ req[t].cycle > req[t].cycles
    /\ IF ~HasRow(req[t].user)
       THEN Finish(t, 500, "TypeError")
       ELSE LET final == users[req[t].user].balance IN
            IF Insufficient(final)
            THEN /\ last' = Response("start_production", 400,
                                     "Saldo insufficiente per prelievo", <<>>,
                                     [req[t] EXCEPT !.final_balance = final])
                 /\ req' = [req EXCEPT ![t] = IdleReq]
            ELSE /\ req' = [req EXCEPT ![t].final_balance = final, ![t].pc = "pm"]
                 /\ last' = last
    /\ UNCHANGED <<users, logs, session, payouts, crashes>>

\* A variant of GetPaymentMethod that goes on to the payout whatever the
\* destination stored.
GetPaymentMethod_Unchecked(t) ==
    /\ req[t].pc = "pm"
    /\ LET pm == IF HasRow(req[t].user) THEN users[req[t].user].stripe_pm_id ELSE None IN
       /\ req' = [req EXCEPT ![t].pm_id = pm, ![t].pc = "payout"]
       /\ last' = last
    /\ UNCHANGED <<users, logs, session, payouts, crashes>>

\* pm_id = get_payment_method(user); if not pm_id: 400.
GetPaymentMethod(t) ==
    /\ req[t].pc = "pm"
    /\ LET pm == IF HasRow(req[t].user) THEN users[req[t].user].stripe_pm_id ELSE None IN
       IF Falsy(pm)
       THEN Finish(t, 400, "Nessun metodo di pagamento configurato")
       ELSE /\ req' = [req EXCEPT ![t].pm_id = pm, ![t].pc = "payout"]
            /\ last' = last
    /\ UNCHANGED <<users, logs, session, payouts, crashes>>

\* A variant of Payout that zeroes the balance before it calls the gateway.
Payout_ZeroFirst(t) ==
    /\ req[t].pc = "payout"
    /\ users' = SetBalance(users, req[t].user, 0)
    /\ \/ \E status \in GatewayStatuses :
            LET id == PayoutId(Len(payouts) + 1) IN
            /\ payouts' = Append(payouts,
                   [id |-> id, amount |-> PayoutAmount(req[t].final_balance),
                    currency |-> "eur", destination |-> req[t].pm_id,
                    method |-> "instant", user |-> req[t].user, status |-> status])
            /\ req' = [req EXCEPT ![t].payout_id = id, ![t].payout_status = status,
                                  ![t].pc = "zero"]
            /\ last' = last
       \/ /\ Finish(t, 400, "StripeError")
          /\ payouts' = payouts
    /\ UNCHANGED <<logs, session, crashes>>

\* stripe.Payout.create(amount=int(final_balance * 100), currency="eur",
\* destination=pm_id, method="instant", metadata={"user": user}): the gateway
\* accepts, and returns an id and a status, or raises StripeError (400).
Payout(t) ==
    /\ req[t].pc = "payout"
    /\ \/ \E status \in GatewayStatuses :
            LET id == PayoutId(Len(payouts) + 1) IN
            /\ payouts' = Append(payouts,
                   [id |-> id, amount |-> PayoutAmount(req[t].final_balance),
                    currency |-> "eur", destination |-> req[t].pm_id,
                    method |-> "instant", user |-> req[t].user, status |-> status])
            /\ req' = [req EXCEPT ![t].payout_id = id, ![t].payout_status = status,
                                  ![t].pc = "zero"]
            /\ last' = last
       \/ /\ Finish(t, 400, "StripeError")
          /\ payouts' = payouts
    /\ UNCHANGED <<users, logs, session, crashes>>

\* A variant of ZeroBalance that leaves the balance as it is.
ZeroBalance_Skipped(t) ==
    /\ req[t].pc = "zero"
    /\ req' = [req EXCEPT ![t].pc = "withdrawal"]
    /\ UNCHANGED <<users, logs, session, payouts, last, crashes>>

\* UPDATE users SET balance = 0
ZeroBalance(t) ==
    /\ req[t].pc = "zero"
    /\ users' = SetBalance(users, req[t].user, 0)
    /\ req' = [req EXCEPT ![t].pc = "withdrawal"]
    /\ UNCHANGED <<logs, session, payouts, last, crashes>>

\* A variant of LogWithdrawal that writes the withdrawal over the latest row
\* of logs when there is one.
LogWithdrawal_OverLatest(t) ==
    /\ req[t].pc = "withdrawal"
    /\ LET row == LogRow(req[t].user, WithdrawalDescription,
                         -req[t].final_balance, req[t].final_balance, 0,
                         req[t].payout_id)
       IN logs' = IF logs = <<>> THEN <<row>> ELSE [logs EXCEPT ![Len(logs)] = row]
    /\ Finish(t, 200, "success")
    /\ UNCHANGED <<users, session, payouts, crashes>>

\* log_transaction(user, "PRELIEVO FINALE", -final_balance, final_balance,
\* 0.0, payout.id), then the success response.
LogWithdrawal(t) ==
    /\ req[t].pc = "withdrawal"
    /\ logs' = Append(logs, LogRow(req[t].user, WithdrawalDescription,
                                   -req[t].final_balance, req[t].final_balance, 0,
                                   req[t].payout_id))
    /\ Finish(t, 200, "success")
    /\ UNCHANGED <<users, session, payouts, crashes>>

\* The process dies: every request in flight is gone; the database file and
\* the session store stay as they are.
Crash(t) ==
    /\ req[t].pc # "idle"
    /\ crashes' = crashes + 1
    /\ req' = [u \in Threads |-> IdleReq]
    /\ last' = Response("crash", 0, "", <<>>, req[t])
    /\ UNCHANGED <<users, logs, session, payouts>>

\* ---------------------------------------------------------- specifications
Step(t) ==
    \/ CycleRead(t)
    \/ CycleWrite(t)
    \/ CycleLog(t)
    \/ FinalBalance(t)
    \/ GetPaymentMethod(t)
    \/ Payout(t)
    \/ ZeroBalance(t)
    \/ LogWithdrawal(t)

\* No request is in flight.
Quiet == \A t \in Threads : req[t].pc = "idle"

\* A request may arrive: at any time, or, when requests come one at a time,
\* only while none is in flight.
MayArrive(one_at_a_time) == one_at_a_time => Quiet

\* A request arrives: its inputs are drawn from in, and a thread of T serves
\* start_production.
Request(T, in, one_at_a_time) ==
    \/ \E name \in in.names, password \in in.passwords :
           MayArrive(one_at_a_time) /\ Register(name, password)
    \/ \E name \in in.names, password \in in.passwords :
           MayArrive(one_at_a_time) /\ Login(name, password)
    \/ \E s \in Sessions : MayArrive(one_at_a_time) /\ Index(s)
    \/ \E s \in Sessions, pm_id \in in.pms :
           MayArrive(one_at_a_time) /\ SavePaymentMethod(s, pm_id)
    \/ \E t \in T, s \in Sessions, a \in in.amounts, c \in in.cycles :
           /\ MayArrive(one_at_a_time)
           /\ LoggedIn(s) => Fits(c, in.rows)
           /\ StartProduction(t, s, a, c)

\* Requests are served by concurrent threads.
Next ==
    \/ Request(Threads, ConcurrentInputs, FALSE)
    \/ \E t \in Threads : Step(t)
    \/ \E t \in Threads : Crash(t)

Spec == Init /\ [][Next]_vars

\* Requests arrive one at a time: none starts while another is in flight,
\* so one thread serves them all.
Worker == "t1"

NextSeq ==
    \/ Request({Worker}, Inputs, TRUE)
    \/ \E t \in Threads : Step(t)
    \/ \E t \in Threads : Crash(t)

SpecSeq == Init /\ [][NextSeq]_vars

\* Requests are served by concurrent threads and the process never crashes.
NextNoCrash ==
    \/ Request(Threads, ConcurrentInputs, FALSE)
    \/ \E t \in Threads : Step(t)

SpecNoCrash == Init /\ [][NextNoCrash]_vars

\* ------------------------------------------------------------- properties
\* The request that just ended, when no request is in flight.
Ended == Quiet /\ last.op = "start_production" /\ last.inv.pc # "idle"

NoDestinationMessage == "Nessun metodo di pagamento configurato"
InsufficientMessage == "Saldo insufficiente per prelievo"

\* The user has no registered payment destination.
NoDestination(name) == users[name].stripe_pm_id \in {None, ""}

\* What cycles accrual steps add to a balance.
Accrued(r) == r.entry_balance + r.cycles * r.amount_per_cycle

\* The rows an invocation appended.
NewRows(r) == {i \in DOMAIN logs : i > r.entry_rows}

\* Rows entry_rows + 1 .. entry_rows + cycles are the accrual rows of the
\* invocation, in order, each starting where the one before ended.
AccrualRows(r) ==
    \A i \in 1..r.cycles :
        /\ r.entry_rows + i \in DOMAIN logs
        /\ logs[r.entry_rows + i] =
               LogRow(r.user, CycleDescription(i, r.cycles), r.amount_per_cycle,
                      r.entry_balance + (i - 1) * r.amount_per_cycle,
                      r.entry_balance + i * r.amount_per_cycle, NoPayout)

\* C1: an invocation of start_production served alone, for a user with a row
\* and a registered destination, from balance B, with cycles >= 0 repetitions
\* and B + cycles * amount_per_cycle > 0, that the gateway did not reject,
\* answers 200 with amount B + cycles * amount_per_cycle, leaves the stored
\* balance at 0, and appends exactly cycles + 1 rows: the cycles accrual rows
\* and then the withdrawal row (amount -final, before final, after 0) that
\* carries the id the gateway returned.
C1_PayoutSettles ==
    LET r == last.inv IN
    (/\ Ended
     /\ HasRow(r.user)
     /\ ~NoDestination(r.user)
     /\ r.cycles >= 0
     /\ Accrued(r) > 0
     /\ last.info # "StripeError")
    => /\ last.status = 200
       /\ r.final_balance = Accrued(r)
       /\ users[r.user].balance = 0
       /\ Len(logs) = r.entry_rows + r.cycles + 1
       /\ AccrualRows(r)
       /\ logs[Len(logs)] =
              LogRow(r.user, WithdrawalDescription, -Accrued(r), Accrued(r), 0, r.payout_id)
       /\ Len(payouts) = r.entry_payouts + 1
       /\ payouts[Len(payouts)].id = r.payout_id

C1_Witness ==
    /\ Ended
    /\ last.status = 200
    /\ last.inv.entry_balance > 0
    /\ last.inv.cycles >= 1
    /\ users[last.inv.user].balance = 0

\* C2: when the gateway rejects the payout of an invocation served alone, the
\* caller gets an error (400), the stored balance is still the accrued
\* balance, no payout is recorded, and the invocation has appended its
\* accrual rows and no withdrawal row.
C2_GatewayFailureKeepsLedger ==
    LET r == last.inv IN
    (Ended /\ last.info = "StripeError")
    => /\ last.status = 400
       /\ HasRow(r.user)
       /\ users[r.user].balance = r.final_balance
       /\ r.final_balance > 0
       /\ (r.cycles >= 0 => r.final_balance = Accrued(r))
       /\ Len(logs) = r.entry_rows + (IF r.cycles > 0 THEN r.cycles ELSE 0)
       /\ AccrualRows(r)
       /\ \A i \in NewRows(r) : logs[i].description # WithdrawalDescription
       /\ Len(payouts) = r.entry_payouts

C2_Witness ==
    /\ Ended
    /\ last.info = "StripeError"
    /\ last.inv.cycles >= 1
    /\ users[last.inv.user].balance > 0

\* C3: an invocation served alone from balance B, with cycles >= 0, for a
\* user with a row and no registered destination whose accrued balance
\* B + cycles * amount_per_cycle is > 0, answers 400 with the
\* no-payment-method error, leaves the stored balance at
\* B + cycles * amount_per_cycle, calls no gateway and appends no withdrawal
\* row.
C3_NoDestinationKeepsBalance ==
    LET r == last.inv IN
    (/\ Ended
     /\ HasRow(r.user)
     /\ NoDestination(r.user)
     /\ r.cycles >= 0
     /\ Accrued(r) > 0)
    => /\ last.status = 400
       /\ last.info = NoDestinationMessage
       /\ users[r.user].balance = Accrued(r)
       /\ r.payout_id = NoPayout
       /\ Len(payouts) = r.entry_payouts
       /\ Len(logs) = r.entry_rows + r.cycles
       /\ AccrualRows(r)
       /\ \A i \in NewRows(r) : logs[i].description # WithdrawalDescription

C3_Witness ==
    /\ Ended
    /\ last.info = NoDestinationMessage
    /\ last.inv.cycles = 2
    /\ users[last.inv.user].balance = Accrued(last.inv)
    /\ users[last.inv.user].balance > 0

\* C4: the step that reads the final balance after the loop, when it reads a
\* balance <= 0, ends the request with 400 and the insufficient-balance
\* error: it calls no gateway and leaves users, logs and session as the
\* loop left them.  It does so whatever the stored destination is, so the
\* balance check comes before the destination check.
C4_InsufficientBalanceAborts ==
    [][\A t \in Threads :
          (/\ req[t].pc = "loop"
           /\ HasRow(req[t].user)
           /\ users[req[t].user].balance <= 0
           /\ FinalBalance(t))
          => /\ last' = Response("start_production", 400, InsufficientMessage, <<>>,
                                 [req[t] EXCEPT !.final_balance = users[req[t].user].balance])
             /\ req'[t] = IdleReq
             /\ UNCHANGED <<users, logs, session, payouts>>]_vars

C4_Witness ==
    /\ Ended
    /\ last.info = InsufficientMessage
    /\ last.status = 400
    /\ last.inv.cycles >= 1
    /\ NoDestination(last.inv.user)
    /\ users[last.inv.user].balance <= 0
    /\ Len(payouts) = last.inv.entry_payouts

\* C5: a request that comes with no session changes nothing but the response:
\* start_production and save_payment_method answer 401 and leave users, logs,
\* session, payouts and the requests in flight alone, and GET / redirects to
\* the login page.
C5_NoSessionNoEffect ==
    [][/\ last'.op = "save_payment_method"
          => \A pm_id \in PmInputs :
                SavePaymentMethod(NoSession, pm_id)
                => /\ last'.status = 401
                   /\ UNCHANGED <<users, logs, session, payouts, req>>
       /\ last'.op = "start_production"
          => \A t \in Threads, a \in AmountInputs, c \in CycleInputs :
                StartProduction(t, NoSession, a, c)
                => /\ last'.status = 401
                   /\ UNCHANGED <<users, logs, session, payouts, req>>
       /\ Index(NoSession)
          => /\ last'.status = 302
             /\ last'.info = "login"
             /\ UNCHANGED <<users, logs, session, payouts, req>>]_vars

C5_Witness ==
    /\ last.op = "start_production"
    /\ last.status = 401
    /\ Len(logs) > 0
    /\ \E n \in DOMAIN users : users[n].balance > 0 /\ users[n].stripe_pm_id # None

\* C6: after register(name, password) has succeeded, verify_user(name,
\* password) with the same name and password is true, and verify_user(name,
\* p) is false for every other password p.
C6_RegisterThenAuthenticate ==
    (last.op = "register" /\ last.status = 302)
    => /\ verify_user(last.form[1], last.form[2])
       /\ \A p \in PasswordInputs \ {last.form[2]} : ~verify_user(last.form[1], p)

\* C7: registering, with a password, a name whose stripped form is already
\* stored fails with the already-exists message and changes neither users
\* nor logs nor the session; a registration that succeeds adds exactly one
\* row, under a name that was not stored, and leaves every other row as it
\* was.
C7_DuplicateNameRejected ==
    [][last'.op = "register"
       => \A name \in NameInputs, password \in PasswordInputs :
             Register(name, password)
             => /\ (Strip(name) \in DOMAIN users /\ password # "")
                   => /\ last'.info = "Utente gia esistente"
                      /\ last'.status = 200
                      /\ UNCHANGED <<users, logs, session, payouts, req>>
                /\ last'.status = 302
                   => /\ Strip(name) \notin DOMAIN users
                      /\ DOMAIN users' = DOMAIN users \cup {Strip(name)}
                      /\ \A n \in DOMAIN users : users'[n] = users[n]
                      /\ logs' = logs]_vars

C7_Witness ==
    /\ last.op = "register"
    /\ last.info = "Utente gia esistente"
    /\ Len(logs) > 0
    /\ \E n \in DOMAIN users : users[n].balance # 0 /\ users[n].stripe_pm_id # None

\* C8: in an invocation served alone, after its i-th accrual step the last
\* row of logs is the row of cycle i of cycles, with amount amount_per_cycle,
\* before B and after B + amount_per_cycle, where B is the balance that was
\* stored before the step (the balance on entry plus i - 1 amounts); the
\* stored balance is B + amount_per_cycle, and the invocation has appended
\* exactly i rows.
C8_OneAccrualStep ==
    \A t \in Threads :
        (req[t].pc = "loop" /\ req[t].cycle > 1)
        => LET r == req[t]
               i == r.cycle - 1
               B == r.entry_balance + (i - 1) * r.amount_per_cycle
           IN /\ HasRow(r.user)
              /\ users[r.user].balance = B + r.amount_per_cycle
              /\ Len(logs) = r.entry_rows + i
              /\ logs[Len(logs)] =
                     LogRow(r.user, CycleDescription(i, r.cycles), r.amount_per_cycle,
                            B, B + r.amount_per_cycle, NoPayout)

C8_Witness ==
    \E t \in Threads :
        /\ req[t].pc = "loop"
        /\ req[t].cycle = 2
        /\ req[t].entry_balance # 0
        /\ Len(logs) = req[t].entry_rows + 1

\* C9: save_payment_method that comes with a session and a non-empty
\* payment_method_id answers 200 and sets the stored destination of the
\* session user to it, whatever was stored, changing nothing else (no
\* balance, no log row); with the field absent or empty it answers 400 and
\* changes nothing.
C9_SavePaymentMethod ==
    [][\A pm_id \in PmInputs :
          (LoggedIn(session) /\ SavePaymentMethod(session, pm_id))
          => IF pm_id \in {None, ""}
             THEN last'.status = 400 /\ UNCHANGED <<users, logs, session, payouts, req>>
             ELSE /\ last'.status = 200
                  /\ users' = IF HasRow(session.user)
                               THEN [users EXCEPT ![session.user].stripe_pm_id = pm_id]
                               ELSE users
                  /\ UNCHANGED <<logs, session, payouts, req>>]_vars

C9_Witness ==
    /\ last.op = "save_payment_method"
    /\ last.status = 200
    /\ HasRow(session.user)
    /\ users[session.user].stripe_pm_id = last.form[1]
    /\ last.form[1] = "pm_2"
    /\ users[session.user].balance # 0
    /\ Len(logs) > 0

\* round(n / d) for d > 0 and n >= 0, as Python rounds: to the nearest
\* integer, a tie to the even one.
RoundHalfEven(n, d) ==
    LET q == n \div d
        twice == 2 * (n % d)
    IN IF twice > d \/ (twice = d /\ q % 2 = 1) THEN q + 1 ELSE q

\* C10: the amount of every payout the gateway has just accepted is the
\* final balance in minor units rounded to the nearest one,
\* round(final_balance * 100).
C10_AmountRoundedToNearestCent ==
    \A t \in Threads :
        req[t].pc = "zero"
        => \E i \in DOMAIN payouts :
              /\ payouts[i].id = req[t].payout_id
              /\ payouts[i].amount = RoundHalfEven(req[t].final_balance, UnitsPerCent)

\* The process has just crashed and nothing has happened since.
Crashed == Quiet /\ last.op = "crash"

\* The positions of the accrual loop, those after the payout was accepted,
\* and the rows of a user in insertion order.
LoopPositions == {"loop", "write", "log"}

UserRows(name) == SelectSeq(logs, LAMBDA row : row.user_name = name)

\* The sum of the amounts of the rows from position from on.
RECURSIVE SumAmounts(_, _)
SumAmounts(rows, from) ==
    IF from > Len(rows) THEN 0 ELSE rows[from].amount + SumAmounts(rows, from + 1)

\* C11: when the process crashes at any point of the accrual loop of an
\* invocation served alone, the stored balance is the balance on entry plus
\* the sum of the amounts of the accrual rows the invocation has appended,
\* and, if the user has a row in logs, it is the balance_after of the latest.
C11_CrashLeavesConsistentTrail ==
    LET r == last.inv IN
    (Crashed /\ r.pc \in LoopPositions /\ HasRow(r.user))
    => /\ users[r.user].balance = r.entry_balance + SumAmounts(logs, r.entry_rows + 1)
       /\ LET rows == UserRows(r.user) IN
          rows # <<>> => users[r.user].balance = rows[Len(rows)].balance_after

\* The invocation has left its accrual loop and has not yet zeroed the
\* balance; the number of cycles its loop ran.
LoopDone(r) ==
    \/ r.pc = "loop" /\ r.cycle > r.cycles
    \/ r.pc \in {"pm", "payout", "zero"}

CyclesRun(r) == IF r.cycles > 0 THEN r.cycles ELSE 0

\* Two invocations for the same user that entered on the same stored balance
\* and the same log, and have both left their loops.
BothLoopsDone(r1, r2) ==
    /\ LoopDone(r1) /\ LoopDone(r2)
    /\ r1.user = r2.user
    /\ HasRow(r1.user)
    /\ r1.entry_rows = r2.entry_rows
    /\ r1.entry_balance = r2.entry_balance

\* The deltas the two loops wrote.
DeltasWritten(r1, r2) ==
    CyclesRun(r1) * r1.amount_per_cycle + CyclesRun(r2) * r2.amount_per_cycle

\* C12: when two concurrent invocations for the same user, entered on the
\* same balance B, have both finished their accrual loops, the log shows
\* every delta of both as applied (one accrual row per cycle of either, each
\* with balance_after = balance_before + amount, the amounts summing to all
\* the deltas written), and the stored balance is at most B plus all the
\* deltas (the amounts being >= 0).  The witness is the lost update: such a
\* state in which the stored balance is smaller than B plus all the deltas.
C12_LogShowsEveryDelta ==
    \A t, u \in Threads :
        (t # u /\ BothLoopsDone(req[t], req[u]))
        => LET n == req[t].entry_rows IN
           /\ Len(logs) = n + CyclesRun(req[t]) + CyclesRun(req[u])
           /\ \A i \in (n + 1)..Len(logs) :
                 /\ logs[i].user_name = req[t].user
                 /\ logs[i].description[1] = "Ciclo"
                 /\ logs[i].balance_after = logs[i].balance_before + logs[i].amount
           /\ SumAmounts(logs, n + 1) = DeltasWritten(req[t], req[u])
           /\ (req[t].amount_per_cycle >= 0 /\ req[u].amount_per_cycle >= 0)
                 => users[req[t].user].balance
                        <= req[t].entry_balance + DeltasWritten(req[t], req[u])

C12_Witness ==
    \E t, u \in Threads :
        /\ t # u
        /\ BothLoopsDone(req[t], req[u])
        /\ users[req[t].user].balance
               < req[t].entry_balance + DeltasWritten(req[t], req[u])
        /\ SumAmounts(logs, req[t].entry_rows + 1) = DeltasWritten(req[t], req[u])

\* What the loop of an invocation served alone leaves stored.
AfterLoop(r) == r.entry_balance + CyclesRun(r) * r.amount_per_cycle

\* C13: when the process crashes after the gateway accepted the payout of an
\* invocation served alone and before the balance is zeroed, the stored
\* balance is still the accrued balance that was paid out, the invocation
\* has appended no withdrawal row, and no row of logs carries the payout id;
\* when it crashes after the zeroing and before the withdrawal row, the
\* stored balance is 0, and again there is no withdrawal row and no row with
\* the payout id.
C13_CrashAroundZeroing ==
    LET r == last.inv IN
    (Crashed /\ r.pc \in {"zero", "withdrawal"})
    => /\ HasRow(r.user)
       /\ Len(payouts) = r.entry_payouts + 1
       /\ payouts[Len(payouts)].id = r.payout_id
       /\ payouts[Len(payouts)].amount = PayoutAmount(r.final_balance)
       /\ r.final_balance = AfterLoop(r)
       /\ r.final_balance > 0
       /\ users[r.user].balance = IF r.pc = "zero" THEN r.final_balance ELSE 0
       /\ Len(logs) = r.entry_rows + CyclesRun(r)
       /\ \A i \in NewRows(r) : logs[i].description # WithdrawalDescription
       /\ \A i \in DOMAIN logs : logs[i].payout_id # r.payout_id

\* A crash after the zeroing, in an invocation that found a balance a crash
\* before the zeroing had left stored although it had been paid out.
C13_Witness ==
    LET r == last.inv IN
    /\ Crashed
    /\ r.pc = "withdrawal"
    /\ users[r.user].balance = 0
    /\ r.entry_payouts = 1
    /\ r.entry_balance > 0
    /\ PayoutAmount(r.entry_balance) = payouts[1].amount
    /\ payouts[1].user = r.user
    /\ \A i \in DOMAIN logs : logs[i].payout_id = NoPayout

\* The states of an invocation: Idle, Accruing (the loop, up to the reading
\* of the final balance), AwaitingPayout (the destination check and the
\* gateway call), Settling (the gateway accepted: zeroing and withdrawal row).
Phase(r) ==
    IF r.pc = "idle" THEN "Idle"
    ELSE IF r.pc \in LoopPositions THEN "Accruing"
    ELSE IF r.pc \in {"pm", "payout"} THEN "AwaitingPayout"
    ELSE "Settling"

\* The positions that may follow a position within one invocation.
NextPositions(r) ==
    IF r.pc = "loop" THEN (IF r.cycle <= r.cycles THEN {"write"} ELSE {"pm"})
    ELSE IF r.pc = "write" THEN {"log"}
    ELSE IF r.pc = "log" THEN {"loop"}
    ELSE IF r.pc = "pm" THEN {"payout"}
    ELSE IF r.pc = "payout" THEN {"zero"}
    ELSE IF r.pc = "zero" THEN {"withdrawal"}
    ELSE {}

\* What holds of an invocation served alone at its position: past the loop,
\* all its cycles are written and logged and the balance check passed; at
\* the gateway call also the destination check passed and the gateway has
\* not been called; after it, the gateway was called exactly once.
InOrder(r) ==
    /\ Phase(r) \in {"AwaitingPayout", "Settling"}
       => /\ r.cycle = CyclesRun(r) + 1
          /\ Len(logs) = r.entry_rows + CyclesRun(r)
          /\ AccrualRows(r)
          /\ r.final_balance = AfterLoop(r)
          /\ r.final_balance > 0
    /\ Phase(r) \in {"Idle", "Accruing", "AwaitingPayout"}
       => /\ r.payout_id = NoPayout
          /\ r.pc # "idle" => Len(payouts) = r.entry_payouts
    /\ r.pc = "payout"
       => r.pm_id \notin {None, ""} /\ r.pm_id = users[r.user].stripe_pm_id
    /\ Phase(r) = "Settling"
       => /\ Len(payouts) = r.entry_payouts + 1
          /\ payouts[Len(payouts)].id = r.payout_id
          /\ r.pm_id \notin {None, ""}

\* C14: an invocation served alone goes through its steps in the listed
\* order, Idle -> Accruing -> AwaitingPayout -> Settled | Failed.  Each step
\* moves it to the next position or ends it; the gateway is called only by
\* the step at the payout position, once, after all the cycles are written
\* and logged and both checks passed; the balance is written only by a
\* cycle's write and by the zeroing, and the zeroing comes only after the
\* gateway accepted; and an invocation that is not cut short by a crash ends
\* with exactly one response: success (200) after the withdrawal row, or an
\* error (400 or 500) before the gateway accepted anything.
C14_StepsInOrder ==
    [][/\ payouts' # payouts
          => /\ \E t \in Threads : req[t].pc = "payout" /\ req'[t].pc = "zero"
             /\ Len(payouts') = Len(payouts) + 1
       /\ \A t \in Threads :
          LET r == req[t]
              q == req'[t]
          IN /\ InOrder(r)
             /\ r.pc = "idle" => q.pc \in {"idle", "loop"}
             /\ (r.pc # "idle" /\ q # r)
                   => q.pc \in NextPositions(r) \cup {"idle"}
             /\ users' # users /\ r.pc # "idle"
                   => \/ r.pc = "write"
                      \/ r.pc = "zero" /\ r.payout_id # NoPayout
             /\ (r.pc # "idle" /\ q.pc = "idle" /\ last'.op # "crash")
                   => /\ last'.op = "start_production"
                      /\ last'.inv.user = r.user
                      /\ IF r.pc = "withdrawal"
                         THEN /\ last'.status = 200
                              /\ Len(logs') = Len(logs) + 1
                              /\ users'[r.user].balance = 0
                         ELSE /\ last'.status \in {400, 500}
                              /\ Phase(r) \in {"Accruing", "AwaitingPayout"}
                              /\ UNCHANGED <<users, logs, payouts>>]_vars

C14_Witness ==
    /\ Ended
    /\ last.status = 200
    /\ last.inv.cycles = 2
    /\ last.inv.pc = "withdrawal"
    /\ Len(logs) = last.inv.entry_rows + 3
    /\ Len(payouts) = last.inv.entry_payouts + 1

\* C15: the log is append-only and users rows are never deleted: every step
\* (register, login, index, save_payment_method, every step of
\* start_production, a crash) leaves every row of logs in place and as it
\* was, appending at most one row, and leaves every stored name stored.
C15_LogAppendOnly ==
    [][/\ Len(logs') \in {Len(logs), Len(logs) + 1}
       /\ \A i \in DOMAIN logs : logs'[i] = logs[i]
       /\ DOMAIN users \subseteq DOMAIN users']_vars

C15_Witness ==
    /\ last.op = "login"
    /\ last.status = 302
    /\ Len(logs) = 3
    /\ logs[3].description = WithdrawalDescription
    /\ logs[1].description = CycleDescription(1, 2)
    /\ DOMAIN users # {}

\* What the gateway was asked to pay to a user in the payouts it accepted
\* from the i-th on, in units of balance.
RECURSIVE PaidTo(_, _)
PaidTo(name, i) ==
    IF i > Len(payouts) THEN 0
    ELSE (IF payouts[i].user = name THEN payouts[i].amount * UnitsPerCent ELSE 0)
         + PaidTo(name, i + 1)

\* The deltas of the accrual writes committed for a user, from the i-th row
\* of logs on: when no crash occurred every committed write has its row in
\* logs, but for the invocations that have written and not yet logged.
RECURSIVE AccruedInRows(_, _)
AccruedInRows(name, i) ==
    IF i > Len(logs) THEN 0
    ELSE (IF logs[i].user_name = name /\ logs[i].description[1] = "Ciclo"
          THEN logs[i].amount ELSE 0)
         + AccruedInRows(name, i + 1)

RECURSIVE AccruedUnlogged(_, _)
AccruedUnlogged(name, T) ==
    IF T = {} THEN 0
    ELSE LET t == CHOOSE x \in T : TRUE IN
         (IF req[t].pc = "log" /\ req[t].user = name
          THEN req[t].amount_per_cycle ELSE 0)
         + AccruedUnlogged(name, T \ {t})

\* The starting balance of a user is that of registration, 0.
AccruedFor(name) == AccruedInRows(name, 1) + AccruedUnlogged(name, Threads)

\* C16: under every interleaving of invocations, with no crash, what the
\* gateway was asked to pay to a user in accepted payouts is at most what was
\* accrued for the user: the starting balance plus the deltas of all the
\* committed accrual writes.
C16_PaidAtMostAccrued ==
    \A name \in DOMAIN users : PaidTo(name, 1) <= AccruedFor(name)

\* C17: whenever the session carries a user name, users holds a row under
\* exactly that name, so get_balance is never absent for the session user
\* and start_production never fails on an unknown user; for every submitted
\* name, also one with leading or trailing blanks.
C17_SessionUserHasRow ==
    /\ LoggedIn(session) => HasRow(session.user)
    /\ \A t \in Threads : req[t].pc # "idle" => HasRow(req[t].user)
    /\ ~(last.op = "start_production" /\ last.info = "TypeError")

\* An invocation for the user has written a balance and not yet inserted the
\* row of that write.
RowPending(name) ==
    \E t \in Threads : req[t].user = name /\ req[t].pc \in {"log", "withdrawal"}

\* C18: while requests are served one at a time and no crash has occurred,
\* the rows of every user form a chain: each has balance_after =
\* balance_before + amount, the first starts at the balance of registration
\* (0) and each other one at the balance_after of the one before; and the
\* stored balance is the balance_after of the user's last row (0 when there
\* is none), but between a balance write and the insertion of its row.
C18_LogChain ==
    crashes = 0
    => \A name \in DOMAIN users :
          LET rows == UserRows(name) IN
          /\ \A i \in DOMAIN rows :
                /\ rows[i].balance_after = rows[i].balance_before + rows[i].amount
                /\ rows[i].balance_before =
                      IF i = 1 THEN 0 ELSE rows[i - 1].balance_after
          /\ ~RowPending(name)
                => users[name].balance =
                      IF rows = <<>> THEN 0 ELSE rows[Len(rows)].balance_after

C18_Witness ==
    /\ crashes = 0
    /\ Quiet
    /\ Len(logs) = 2
    /\ logs[1].description = CycleDescription(1, 1)
    /\ logs[1].balance_after # 0
    /\ logs[2].description = WithdrawalDescription
    /\ logs[2].balance_before = logs[1].balance_after
    /\ last.inv.entry_rows = 1
    /\ \E name \in DOMAIN users : users[name].balance = logs[2].balance_after

\* C19: an invocation served alone with cycles <= 0 performs no accrual: it
\* never writes a balance in a cycle and appends no accrual row, and its
\* balance check reads the stored balance B unchanged; so B <= 0 ends it with
\* the insufficient-balance error and B stored, and B > 0 with a destination
\* and no gateway rejection is paid out and zeroed as after a loop: 200,
\* amount B, balance 0, one withdrawal row.  With a negative amount_per_cycle
\* a loop of cycles >= 1 that leaves B + cycles * amount_per_cycle < 0 ends
\* with the insufficient-balance error, no payout, and that negative balance
\* stored.
C19_NoCyclesNoAccrual ==
    /\ \A t \in Threads :
          LET r == req[t] IN
          (r.pc # "idle" /\ r.cycles <= 0 /\ HasRow(r.user))
          => /\ r.pc \notin {"write", "log"}
             /\ r.cycle = 1
             /\ Len(logs) = r.entry_rows
             /\ r.pc \in {"loop", "pm", "payout", "zero"}
                   => users[r.user].balance = r.entry_balance
             /\ r.pc # "loop" => r.final_balance = r.entry_balance
    /\ LET r == last.inv IN
       (Ended /\ r.cycles <= 0 /\ HasRow(r.user))
       => /\ \A i \in NewRows(r) : logs[i].description = WithdrawalDescription
          /\ r.entry_balance <= 0
                => /\ last.status = 400
                   /\ last.info = InsufficientMessage
                   /\ users[r.user].balance = r.entry_balance
                   /\ Len(logs) = r.entry_rows
                   /\ Len(payouts) = r.entry_payouts
          /\ (r.entry_balance > 0 /\ ~NoDestination(r.user) /\ last.info # "StripeError")
                => /\ last.status = 200
                   /\ r.final_balance = r.entry_balance
                   /\ users[r.user].balance = 0
                   /\ Len(logs) = r.entry_rows + 1
                   /\ logs[Len(logs)] =
                          LogRow(r.user, WithdrawalDescription, -r.entry_balance,
                                 r.entry_balance, 0, r.payout_id)
                   /\ Len(payouts) = r.entry_payouts + 1
                   /\ payouts[Len(payouts)].amount = PayoutAmount(r.entry_balance)
    /\ LET r == last.inv IN
       (Ended /\ r.cycles >= 1 /\ HasRow(r.user) /\ Accrued(r) < 0)
       => /\ last.status = 400
          /\ last.info = InsufficientMessage
          /\ users[r.user].balance = Accrued(r)
          /\ Len(payouts) = r.entry_payouts

C19_Witness ==
    /\ Ended
    /\ last.inv.cycles = -1
    /\ last.status = 200
    /\ last.inv.entry_balance > 0
    /\ last.inv.final_balance = last.inv.entry_balance
    /\ users[last.inv.user].balance = 0
    /\ Len(logs) = last.inv.entry_rows + 1

=============================================================================
